---- MODULE Spec2Model ----
(***************************************************************************)
(* Model of the resilient HTTP client of the UniFi MCP server              *)
(* (src/src/api/client.py): the token-bucket RateLimiter and the           *)
(* UniFiClient._request pipeline with its recursive retry, the mapping of  *)
(* HTTP statuses and transport exceptions to typed errors, and the         *)
(* propagation of results through the frames of the recursion.             *)
(*                                                                         *)
(* Time is counted in ticks of 1/requests_per_period second and tokens     *)
(* are scaled by period_seconds, so that the limiter's arithmetic          *)
(*   tokens + time_passed * requests_per_period / period_seconds           *)
(* is exact on integers: one tick refills one scaled token unit, a whole   *)
(* token is period_seconds units.                                          *)
(***************************************************************************)
EXTENDS Integers, Sequences, FiniteSets, TLC

\* ------------------------------------------------------------------ bounds
MaxRetriesBound == 3

\* ------------------------------------------------------- optional values
None == <<>>
Some(x) == <<x>>

\* ------------------------------------------------- typed errors (utils)
\* src/utils/exceptions.py is not part of the available sources; the
\* constructors and the class hierarchy follow the tests and section 3/7.
TypedErrors ==
  {"AuthenticationError", "RateLimitError", "ResourceNotFoundError",
   "NetworkError", "APIError"}

MkExc(type, status_code, retry_after, response_data, resource_type, resource_id) ==
  [type |-> type, status_code |-> status_code, retry_after |-> retry_after,
   response_data |-> response_data, resource_type |-> resource_type,
   resource_id |-> resource_id]

RateLimitError(retry_after) ==
  MkExc("RateLimitError", Some(429), Some(retry_after), None, None, None)

ResourceNotFoundError(resource_type, resource_id) ==
  MkExc("ResourceNotFoundError", Some(404), None, None,
        Some(resource_type), Some(resource_id))

AuthenticationError ==
  MkExc("AuthenticationError", None, None, None, None, None)

NetworkError ==
  MkExc("NetworkError", None, None, None, None, None)

APIError(status_code, response_data) ==
  MkExc("APIError", status_code, None, response_data, None, None)

\* exceptions of Python and httpx that are raised inside one attempt
RawExc(type) == MkExc(type, None, None, None, None, None)

\* the classes an exception of a given class is an instance of
Bases(type) ==
  CASE type = "RateLimitError" -> {"RateLimitError", "APIError"}
    [] type = "ResourceNotFoundError" -> {"ResourceNotFoundError", "APIError"}
    [] OTHER -> {type}

IsInstance(exc, classes) == Bases(exc.type) \cap classes # {}

\* ---------------------------------------------------- int(header value)
\* A header value is a sequence of characters.  Python's int(str) strips
\* surrounding whitespace, takes an optional sign and then needs decimal
\* digits, single underscores allowed between digits; anything else raises
\* ValueError.
DigitChars == <<"0", "1", "2", "3", "4", "5", "6", "7", "8", "9">>

IsDigit(c) == \E i \in 1..Len(DigitChars) : DigitChars[i] = c

DigitVal(c) == (CHOOSE i \in 1..Len(DigitChars) : DigitChars[i] = c) - 1

IsSpace(c) == c \in {" ", "\t"}

RECURSIVE LStrip(_)
LStrip(s) ==
  IF s # <<>> /\ IsSpace(Head(s)) THEN LStrip(Tail(s)) ELSE s

RECURSIVE RStrip(_)
RStrip(s) ==
  IF s # <<>> /\ IsSpace(s[Len(s)]) THEN RStrip(SubSeq(s, 1, Len(s) - 1)) ELSE s

Strip(s) == RStrip(LStrip(s))

RECURSIVE DigitsValue(_, _)
DigitsValue(s, acc) ==
  IF s = <<>> THEN acc
  ELSE IF Head(s) = "_" THEN DigitsValue(Tail(s), acc)
  ELSE DigitsValue(Tail(s), 10 * acc + DigitVal(Head(s)))

WellFormedDigits(s) ==
  /\ s # <<>>
  /\ IsDigit(s[1])
  /\ IsDigit(s[Len(s)])
  /\ \A i \in 1..Len(s) : IsDigit(s[i]) \/ s[i] = "_"
  /\ \A i \in 1..(Len(s) - 1) : ~(s[i] = "_" /\ s[i + 1] = "_")

\* int(s): Some(n), or None when Python raises ValueError
PyInt(s) ==
  LET t == Strip(s)
      signed == t # <<>> /\ Head(t) \in {"+", "-"}
      digits == IF signed THEN Tail(t) ELSE t
  IN  IF ~WellFormedDigits(digits) THEN None
      ELSE IF signed /\ Head(t) = "-" THEN Some(0 - DigitsValue(digits, 0))
      ELSE Some(DigitsValue(digits, 0))

DefaultRetryAfter == 60

\* int(response.headers.get("Retry-After", 60)); headers is None when the
\* response carries no Retry-After header
RetryAfterOf(header) ==
  IF header = None THEN Some(DefaultRetryAfter) ELSE PyInt(header[1])

\* ------------------------------------------------------ response.json()
\* A body is a sequence of tokens: punctuation, quoted strings, whitespace
\* and bare text.  The decoder accepts an object with zero or one
\* string-valued member, surrounded by optional whitespace, and raises
\* JSONDecodeError on everything else (the empty and the whitespace-only
\* body included).  A decoded object is the set of its <<key, value>> pairs.
Punct(s) == [t |-> "punct", s |-> s]
Str(s) == [t |-> "str", s |-> s]
Ws == [t |-> "ws", s |-> " "]
Bare(s) == [t |-> "bare", s |-> s]

DropWs(toks) == SelectSeq(toks, LAMBDA k : k.t # "ws")

\* json.loads(text): Some(object), or None when JSONDecodeError is raised
JsonLoads(text) ==
  LET toks == DropWs(text)
  IN  IF toks = <<Punct("{"), Punct("}")>> THEN Some({})
      ELSE IF /\ Len(toks) = 5
              /\ toks[1] = Punct("{")
              /\ toks[2].t = "str"
              /\ toks[3] = Punct(":")
              /\ toks[4].t = "str"
              /\ toks[5] = Punct("}")
           THEN Some({<<toks[2].s, toks[4].s>>})
      ELSE None

\* --------------------------------------------------- inputs of the model
Methods == {"GET", "POST", "PUT", "DELETE"}

Endpoints == {"/test", "/widgets/abc"}

HeaderSamples ==
  { None,
    Some(<<"2">>),
    Some(<<"a", "b">>) }

EmptyBody == <<>>
WhitespaceBody == <<Ws>>
ObjectBody == <<Punct("{"), Str("error"), Punct(":"), Str("internal"), Punct("}")>>
TextBody == <<Bare("Not"), Ws, Bare("Found")>>

BodySamples == {EmptyBody, WhitespaceBody, ObjectBody, TextBody}

StatusSamples == {200, 204, 400, 401, 403, 404, 429, 500}

Response(status_code, header, text) ==
  [status_code |-> status_code, retry_after |-> header, text |-> text]

\* what one call of self.client.request can produce: a response, or one of
\* httpx.TimeoutException, httpx.NetworkError, or any other exception
TransportOutcomes ==
  { [kind |-> "response", response |-> Response(st, None, b)] :
      st \in StatusSamples \ {429}, b \in BodySamples }
  \cup
  { [kind |-> "response", response |-> Response(429, h, TextBody)] :
      h \in HeaderSamples }
  \cup
  { [kind |-> k, response |-> Response(0, None, EmptyBody)] :
      k \in {"httpx.TimeoutException", "httpx.NetworkError", "Exception"} }

\* ------------------------------------------------------------ the state
VARIABLES
  settings,      \* Settings: max_retries, retry_backoff_factor, rate limits, logging
  now,           \* time.time(), in ticks
  rate_limiter,  \* RateLimiter of the client: tokens (scaled), last_update
  pc,            \* position of the logical request
  request,       \* method and endpoint of the logical request
  frames,        \* activations of _request, outermost first
  pending,       \* the asyncio.sleep a frame is suspended in before its retry
  flight,        \* the value or exception travelling back through the frames
  outcomes,      \* what each physical attempt met, in order
  sleeps,        \* the retry sleeps of the logical request, in order
  acquired,      \* completed rate_limiter.acquire() calls
  limiter_slept, \* ticks slept inside acquire()
  log_records,   \* records written by log_api_request
  limiters,      \* concurrent callers: RateLimiter of each client
  locks,         \* RateLimiter._lock of each client: holder first, then waiters
  tasks,         \* each caller of acquire(): position, wake-up time
  admitted,      \* per client, the acquire() calls that returned, in order
  authenticated, \* UniFiClient._authenticated
  op,            \* the public method of the client that is running
  auth_result,   \* how the last authenticate() ended
  auth_returned, \* an authenticate() call of this client has returned
  ops,           \* public calls of the client that have ended
  closed,        \* calls of client.aclose()
  context,       \* the "async with UniFiClient(settings)" block around the calls
  call,          \* the tool call that is running: name, arguments, position
  api_calls,     \* the client calls the tool has made, in order
  audit_log,     \* the audit entries written by log_audit / audit_action
  tool_result,   \* how the tool call ended
  reqs,          \* concurrent logical requests on one client: position, attempts
  zone,          \* the networks of the firewall zone, as the controller holds them
  assigns        \* concurrent assign_network_to_zone calls: position, list read

requestVars ==
  <<rate_limiter, pc, request, frames, pending, flight, outcomes, sleeps,
    acquired, limiter_slept, log_records>>

limiterVars == <<limiters, locks, tasks, admitted>>

clientVars ==
  <<authenticated, op, auth_result, auth_returned, ops, closed, context>>

\* what the concurrent callers of the client and of the tools hold
taskVars == <<reqs, zone, assigns>>

toolVars == <<call, api_calls, audit_log, tool_result, taskVars>>

vars == <<settings, now, requestVars, limiterVars, clientVars, toolVars>>

BackoffFactors == {2, 3}

\* ------------------------------------------------------------ RateLimiter
TicksPerSecond == settings.rate_limit_requests

Capacity == settings.rate_limit_requests * settings.rate_limit_period

OneToken == settings.rate_limit_period

Min(a, b) == IF a < b THEN a ELSE b

Max(a, b) == IF a > b THEN a ELSE b

\* RateLimiter.__init__
NewRateLimiter(requests_per_period, period_seconds, t) ==
  [tokens |-> requests_per_period * period_seconds, last_update |-> t]

\* the refill without the cap at requests_per_period
RefilledUncapped(rl, t) == rl.tokens + (t - rl.last_update)

\* tokens after the refill of acquire()
Refilled(rl, t) == Min(Capacity, rl.tokens + (t - rl.last_update))

\* a sleep until the bucket is full again
SleepTimeFullBucket(tokens) == IF tokens < OneToken THEN Capacity - tokens ELSE 0

\* sleep_time of acquire(), in ticks; 0 when a token is available
SleepTime(tokens) == IF tokens < OneToken THEN OneToken - tokens ELSE 0

\* RateLimiter.acquire() of a single caller, its sleep included
Acquire ==
  /\ pc = "acquire"
  /\ LET tokens == Refilled(rate_limiter, now)
         sleep_time == SleepTime(tokens)
     IN  /\ rate_limiter' =
              [tokens |-> IF tokens < OneToken THEN 0 ELSE tokens - OneToken,
               last_update |-> now]
         /\ now' = now + sleep_time
         /\ limiter_slept' = limiter_slept + sleep_time
  /\ acquired' = acquired + 1
  /\ pc' = "transport"
  /\ UNCHANGED <<settings, request, frames, pending, flight, outcomes,
                 sleeps, log_records>>
  /\ UNCHANGED <<toolVars, limiterVars, clientVars>>

\* --------------------------------------------------- UniFiClient._request
NoExc == RawExc("none")

NoFlight == [kind |-> "none", value |-> None, exc |-> NoExc, seconds |-> 0, site |-> "none"]

Return(value) == [NoFlight EXCEPT !.kind = "return", !.value = Some(value)]

Raise(exc) == [NoFlight EXCEPT !.kind = "raise", !.exc = exc]

\* await asyncio.sleep(seconds), then the recursive call at the given line
Retry(seconds, site) == [NoFlight EXCEPT !.kind = "retry", !.seconds = seconds, !.site = site]

RECURSIVE Pow(_, _)
Pow(b, e) == IF e = 0 THEN 1 ELSE b * Pow(b, e - 1)

\* TryBody without the 404 branch: a 404 falls to the generic >= 400 branch
TryBodyNo404(response, endpoint, retry_count) ==
  IF response.status_code = 429 THEN
    LET retry_after == RetryAfterOf(response.retry_after)
    IN  IF retry_after = None THEN Raise(RawExc("ValueError"))
        ELSE IF retry_count < settings.max_retries
             THEN Retry(retry_after[1], "line180")
        ELSE Raise(RateLimitError(retry_after[1]))
  ELSE IF response.status_code \in {401, 403} THEN
    Raise(AuthenticationError)
  ELSE IF response.status_code >= 400 THEN
    Raise(APIError(Some(response.status_code), JsonLoads(response.text)))
  ELSE
    LET json_response == JsonLoads(response.text)
    IN  IF json_response = None THEN Raise(RawExc("JSONDecodeError"))
        ELSE Return(json_response[1])

\* TryBody whose error-body parse is not guarded: a body that does not parse
\* raises JSONDecodeError in place of the APIError
TryBodyUnguardedParse(response, endpoint, retry_count) ==
  IF response.status_code = 429 THEN
    LET retry_after == RetryAfterOf(response.retry_after)
    IN  IF retry_after = None THEN Raise(RawExc("ValueError"))
        ELSE IF retry_count < settings.max_retries
             THEN Retry(retry_after[1], "line180")
        ELSE Raise(RateLimitError(retry_after[1]))
  ELSE IF response.status_code = 404 THEN
    Raise(ResourceNotFoundError("resource", endpoint))
  ELSE IF response.status_code \in {401, 403} THEN
    Raise(AuthenticationError)
  ELSE IF response.status_code >= 400 THEN
    IF JsonLoads(response.text) = None THEN Raise(RawExc("JSONDecodeError"))
    ELSE Raise(APIError(Some(response.status_code), JsonLoads(response.text)))
  ELSE
    LET json_response == JsonLoads(response.text)
    IN  IF json_response = None THEN Raise(RawExc("JSONDecodeError"))
        ELSE Return(json_response[1])

\* TryBody that also retries a server error (status >= 500) like a 429
TryBodyRetry5xx(response, endpoint, retry_count) ==
  IF response.status_code = 429 THEN
    LET retry_after == RetryAfterOf(response.retry_after)
    IN  IF retry_after = None THEN Raise(RawExc("ValueError"))
        ELSE IF retry_count < settings.max_retries
             THEN Retry(retry_after[1], "line180")
        ELSE Raise(RateLimitError(retry_after[1]))
  ELSE IF response.status_code = 404 THEN
    Raise(ResourceNotFoundError("resource", endpoint))
  ELSE IF response.status_code \in {401, 403} THEN
    Raise(AuthenticationError)
  ELSE IF response.status_code >= 500 /\ retry_count < settings.max_retries THEN
    Retry(1, "line180")
  ELSE IF response.status_code >= 400 THEN
    Raise(APIError(Some(response.status_code), JsonLoads(response.text)))
  ELSE
    LET json_response == JsonLoads(response.text)
    IN  IF json_response = None THEN Raise(RawExc("JSONDecodeError"))
        ELSE Return(json_response[1])

\* TryBody whose 429 retry test is off by one (<= for <)
TryBody429OffByOne(response, endpoint, retry_count) ==
  IF response.status_code = 429 THEN
    LET retry_after == RetryAfterOf(response.retry_after)
    IN  IF retry_after = None THEN Raise(RawExc("ValueError"))
        ELSE IF retry_count <= settings.max_retries
             THEN Retry(retry_after[1], "line180")
        ELSE Raise(RateLimitError(retry_after[1]))
  ELSE IF response.status_code = 404 THEN
    Raise(ResourceNotFoundError("resource", endpoint))
  ELSE IF response.status_code \in {401, 403} THEN
    Raise(AuthenticationError)
  ELSE IF response.status_code >= 400 THEN
    Raise(APIError(Some(response.status_code), JsonLoads(response.text)))
  ELSE
    LET json_response == JsonLoads(response.text)
    IN  IF json_response = None THEN Raise(RawExc("JSONDecodeError"))
        ELSE Return(json_response[1])

\* the body of the try statement once the transport has answered
TryBody(response, endpoint, retry_count) ==
  IF response.status_code = 429 THEN
    LET retry_after == RetryAfterOf(response.retry_after)
    IN  IF retry_after = None THEN Raise(RawExc("ValueError"))
        ELSE IF retry_count < settings.max_retries
             THEN Retry(retry_after[1], "line180")
        ELSE Raise(RateLimitError(retry_after[1]))
  ELSE IF response.status_code = 404 THEN
    Raise(ResourceNotFoundError("resource", endpoint))
  ELSE IF response.status_code \in {401, 403} THEN
    Raise(AuthenticationError)
  ELSE IF response.status_code >= 400 THEN
    Raise(APIError(Some(response.status_code), JsonLoads(response.text)))
  ELSE
    LET json_response == JsonLoads(response.text)
    IN  IF json_response = None THEN Raise(RawExc("JSONDecodeError"))
        ELSE Return(json_response[1])

ReRaised ==
  {"RateLimitError", "AuthenticationError", "APIError", "ResourceNotFoundError"}

\* ExceptClauses with the retry test off by one (<= for <)
ExceptClausesOffByOne(effect, retry_count) ==
  IF effect.kind # "raise" THEN effect
  ELSE IF effect.exc.type = "httpx.TimeoutException" THEN
    IF retry_count <= settings.max_retries
    THEN Retry(Pow(settings.retry_backoff_factor, retry_count), "line216")
    ELSE Raise(NetworkError)
  ELSE IF effect.exc.type = "httpx.NetworkError" THEN
    IF retry_count <= settings.max_retries
    THEN Retry(Pow(settings.retry_backoff_factor, retry_count), "line226")
    ELSE Raise(NetworkError)
  ELSE IF IsInstance(effect.exc, ReRaised) THEN effect
  ELSE Raise(APIError(None, None))

\* ExceptClauses without the final catch-all clause
ExceptClausesNoCatchAll(effect, retry_count) ==
  IF effect.kind # "raise" THEN effect
  ELSE IF effect.exc.type = "httpx.TimeoutException" THEN
    IF retry_count < settings.max_retries
    THEN Retry(Pow(settings.retry_backoff_factor, retry_count), "line216")
    ELSE Raise(NetworkError)
  ELSE IF effect.exc.type = "httpx.NetworkError" THEN
    IF retry_count < settings.max_retries
    THEN Retry(Pow(settings.retry_backoff_factor, retry_count), "line226")
    ELSE Raise(NetworkError)
  ELSE effect

\* ExceptClauses whose backoff is linear (factor * retry_count) on a
\* connection failure
ExceptClausesLinearBackoff(effect, retry_count) ==
  IF effect.kind # "raise" THEN effect
  ELSE IF effect.exc.type = "httpx.TimeoutException" THEN
    IF retry_count < settings.max_retries
    THEN Retry(Pow(settings.retry_backoff_factor, retry_count), "line216")
    ELSE Raise(NetworkError)
  ELSE IF effect.exc.type = "httpx.NetworkError" THEN
    IF retry_count < settings.max_retries
    THEN Retry(settings.retry_backoff_factor * retry_count, "line226")
    ELSE Raise(NetworkError)
  ELSE IF IsInstance(effect.exc, ReRaised) THEN effect
  ELSE Raise(APIError(None, None))

\* the except clauses of the try statement, in their order, applied to what
\* the try body did
ExceptClauses(effect, retry_count) ==
  IF effect.kind # "raise" THEN effect
  ELSE IF effect.exc.type = "httpx.TimeoutException" THEN
    IF retry_count < settings.max_retries
    THEN Retry(Pow(settings.retry_backoff_factor, retry_count), "line216")
    ELSE Raise(NetworkError)
  ELSE IF effect.exc.type = "httpx.NetworkError" THEN
    IF retry_count < settings.max_retries
    THEN Retry(Pow(settings.retry_backoff_factor, retry_count), "line226")
    ELSE Raise(NetworkError)
  ELSE IF IsInstance(effect.exc, ReRaised) THEN effect
  ELSE Raise(APIError(None, None))

\* what a frame does with an effect: suspend in the retry sleep, or hand
\* the value or exception to its caller
Continue(effect) ==
  IF effect.kind = "retry"
  THEN /\ pending' = effect
       /\ pc' = "sleep"
       /\ flight' = NoFlight
  ELSE /\ flight' = effect
       /\ pc' = "unwind"
       /\ pending' = NoFlight

Top == frames[Len(frames)]

\* get / post / put / delete: the first activation of _request
Request(method, endpoint) ==
  /\ pc = "idle"
  /\ request' = [method |-> method, endpoint |-> endpoint]
  /\ frames' = <<[retry_count |-> 0, awaiting |-> "none"]>>
  /\ pc' = "acquire"
  /\ UNCHANGED <<settings, now, rate_limiter, pending, flight, outcomes,
                 sleeps, acquired, limiter_slept, log_records>>
  /\ UNCHANGED <<toolVars, limiterVars, clientVars>>

\* one physical attempt: the transport call, the log record, the status
\* mapping and the except clauses, up to the retry sleep or the raise/return
Attempt(outcome) ==
  /\ pc = "transport"
  /\ outcomes' = Append(outcomes, outcome)
  /\ log_records' =
       IF outcome.kind = "response" /\ settings.log_api_requests
       THEN Append(log_records,
                   [method |-> request.method, url |-> request.endpoint,
                    status_code |-> outcome.response.status_code,
                    duration_ms |-> 0])
       ELSE log_records
  /\ LET body == IF outcome.kind = "response"
                 THEN TryBody(outcome.response, request.endpoint, Top.retry_count)
                 ELSE Raise(RawExc(outcome.kind))
     IN  Continue(ExceptClauses(body, Top.retry_count))
  /\ UNCHANGED <<settings, now, rate_limiter, request, frames, sleeps,
                 acquired, limiter_slept>>
  /\ UNCHANGED <<toolVars, limiterVars, clientVars>>

\* one physical attempt whose call of log_api_request (line 164) raises: no
\* record is written, the exception leaves the try body before the status
\* is looked at and the except clauses apply to it
AttemptLogFails(outcome) ==
  /\ pc = "transport"
  /\ outcome.kind = "response"
  /\ settings.log_api_requests
  /\ outcomes' = Append(outcomes, outcome)
  /\ Continue(ExceptClauses(Raise(RawExc("Exception")), Top.retry_count))
  /\ UNCHANGED <<settings, now, rate_limiter, request, frames, sleeps,
                 acquired, limiter_slept, log_records>>
  /\ UNCHANGED <<toolVars, limiterVars, clientVars>>

\* a retry that goes to the transport without rate_limiter.acquire()
RetrySleepNoAcquire ==
  /\ pc = "sleep"
  /\ now' = now + Max(0, pending.seconds) * TicksPerSecond
  /\ sleeps' = Append(sleeps, [attempt |-> Top.retry_count,
                               seconds |-> pending.seconds,
                               site |-> pending.site])
  /\ frames' = Append([frames EXCEPT ![Len(frames)].awaiting = pending.site],
                      [retry_count |-> Top.retry_count + 1, awaiting |-> "none"])
  /\ pending' = NoFlight
  /\ pc' = "transport"
  /\ UNCHANGED <<settings, rate_limiter, request, flight, outcomes, acquired,
                 limiter_slept, log_records>>
  /\ UNCHANGED <<toolVars, limiterVars, clientVars>>

\* the retry sleep ends and the frame calls _request with retry_count + 1
RetrySleep ==
  /\ pc = "sleep"
  /\ now' = now + Max(0, pending.seconds) * TicksPerSecond
  /\ sleeps' = Append(sleeps, [attempt |-> Top.retry_count,
                               seconds |-> pending.seconds,
                               site |-> pending.site])
  /\ frames' = Append([frames EXCEPT ![Len(frames)].awaiting = pending.site],
                      [retry_count |-> Top.retry_count + 1, awaiting |-> "none"])
  /\ pending' = NoFlight
  /\ pc' = "acquire"
  /\ UNCHANGED <<settings, rate_limiter, request, flight, outcomes, acquired,
                 limiter_slept, log_records>>
  /\ UNCHANGED <<toolVars, limiterVars, clientVars>>

\* the innermost activation ends; its caller gets the value or exception at
\* the line of its recursive call: inside the try body (line 180) the
\* except clauses apply to it, inside an except clause (216, 226) they do not
Unwind ==
  /\ pc = "unwind"
  /\ Len(frames) > 1
  /\ LET caller == frames[Len(frames) - 1]
     IN  /\ frames' = [SubSeq(frames, 1, Len(frames) - 1)
                         EXCEPT ![Len(frames) - 1].awaiting = "none"]
         /\ Continue(IF caller.awaiting = "line180"
                     THEN ExceptClauses(flight, caller.retry_count)
                     ELSE flight)
  /\ UNCHANGED <<settings, now, rate_limiter, request, outcomes, sleeps,
                 acquired, limiter_slept, log_records>>
  /\ UNCHANGED <<toolVars, limiterVars, clientVars>>

\* the outermost activation ends: the caller of get/post/put/delete has the
\* result
Complete ==
  /\ pc = "unwind"
  /\ Len(frames) = 1
  /\ frames' = <<>>
  /\ pc' = "done"
  /\ UNCHANGED <<settings, now, rate_limiter, request, pending, flight,
                 outcomes, sleeps, acquired, limiter_slept, log_records>>
  /\ UNCHANGED <<toolVars, limiterVars, clientVars>>

\* -------------------------------------- RateLimiter, concurrent callers
\* Several tasks call acquire() on the limiters of two clients built from
\* the same settings.  asyncio.Lock is first-in first-out: the head of the
\* queue holds the lock, the others wait in the order of their arrival.
\* the number of acquire() calls made on the limiter of the first client
MaxAcquires == 3

\* the number of acquire() calls made on the limiter of the second client
MaxAcquiresOther == 2

MaxTime == 3

Clients == {"c1", "c2"}

Tasks == {"t1", "t2", "t3"}

\* the client whose request each task runs
ClientOf(t) == IF t = "t3" THEN "c2" ELSE "c1"

\* a single limiter shared by all the clients
LimiterOfShared(t) == "c1"

\* self.rate_limiter of the client of the task
LimiterOf(t) == ClientOf(t)

\* the lock is never released
ReleaseNever(queue) == queue

\* leaving "async with self._lock": the next waiter gets the lock
Release(queue) == Tail(queue)

\* the acquire() calls the callers make on the limiter of client c
Budget(c) == IF c = "c1" THEN MaxAcquires ELSE MaxAcquiresOther

\* a lock that lets every queued task in
HoldsLockAnyWaiter(queue, t) == \E i \in 1..Len(queue) : queue[i] = t

\* "async with self._lock": the task at the head of the queue has the lock
HoldsLock(queue, t) == queue # <<>> /\ Head(queue) = t

IdleTask == [pc |-> "idle", since |-> 0, wake |-> 0]

\* the acquire() calls made so far on the limiter of client c
Calls(c) ==
  Len(admitted[c])
    + Cardinality({t \in Tasks : LimiterOf(t) = c /\ tasks[t].pc # "idle"})

LimiterIdle ==
  /\ limiters = [c \in Clients |->
                   NewRateLimiter(settings.rate_limit_requests,
                                  settings.rate_limit_period, 0)]
  /\ locks = [c \in Clients |-> <<>>]
  /\ tasks = [t \in Tasks |-> IdleTask]
  /\ admitted = [c \in Clients |-> <<>>]

\* the call of acquire(): the task takes the lock or queues for it
AcquireEnter(t) ==
  /\ tasks[t].pc = "idle"
  /\ Calls(LimiterOf(t)) < Budget(LimiterOf(t))
  /\ locks' = [locks EXCEPT ![LimiterOf(t)] = Append(@, t)]
  /\ tasks' = [tasks EXCEPT ![t].pc = "waiting"]
  /\ UNCHANGED <<settings, now, limiters, admitted, requestVars, clientVars, toolVars>>

\* with the lock held: the refill, then either the debit and the return,
\* or the start of the sleep (lines 40-53)
AcquireRefill(t) ==
  LET c == LimiterOf(t)
      tokens == Refilled(limiters[c], now)
  IN  /\ tasks[t].pc = "waiting"
      /\ HoldsLock(locks[c], t)
      /\ IF tokens < OneToken
         THEN /\ limiters' = [limiters EXCEPT ![c] =
                                [tokens |-> tokens, last_update |-> now]]
              /\ tasks' = [tasks EXCEPT ![t].pc = "sleeping",
                                        ![t].since = now,
                                        ![t].wake = now + SleepTime(tokens)]
              /\ UNCHANGED <<locks, admitted>>
         ELSE /\ limiters' = [limiters EXCEPT ![c] =
                                [tokens |-> tokens - OneToken, last_update |-> now]]
              /\ tasks' = [tasks EXCEPT ![t].pc = "idle"]
              /\ locks' = [locks EXCEPT ![c] = Release(@)]
              /\ admitted' = [admitted EXCEPT ![c] =
                                Append(@, [task |-> t, at |-> now, slept |-> 0,
                                           returned |-> now,
                                           tokens_after |-> tokens - OneToken])]
      /\ UNCHANGED <<settings, now, requestVars, clientVars, toolVars>>

\* the sleep of acquire() is over: tokens = 0, the lock is released and
\* acquire() returns (line 51)
AcquireWake(t) ==
  LET c == LimiterOf(t)
  IN  /\ tasks[t].pc = "sleeping"
      /\ now >= tasks[t].wake
      /\ limiters' = [limiters EXCEPT ![c].tokens = 0]
      /\ tasks' = [tasks EXCEPT ![t].pc = "idle"]
      /\ locks' = [locks EXCEPT ![c] = Release(@)]
      /\ admitted' = [admitted EXCEPT ![c] =
                        Append(@, [task |-> t, at |-> tasks[t].since,
                                   slept |-> tasks[t].wake - tasks[t].since,
                                   returned |-> now,
                                   tokens_after |-> 0])]
      /\ UNCHANGED <<settings, now, requestVars, clientVars, toolVars>>

\* time passes; it can always pass until the sleeping tasks are due
Tick ==
  /\ \/ now < MaxTime
     \/ \E t \in Tasks : tasks[t].pc = "sleeping" /\ now < tasks[t].wake
  /\ now' = now + 1
  /\ UNCHANGED <<settings, requestVars, limiterVars, clientVars, toolVars>>

\* ---------------------------------------------------------- the client
MaxOps == 2

\* dict.get(key): Some(value), or None when the key is absent
DictGet(dict, key) ==
  IF \E pair \in dict : pair[1] = key
  THEN Some((CHOOSE pair \in dict : pair[1] = key)[2])
  ELSE None

\* response.get("meta", {}).get("rc") == "ok" or response.get("data") is not None
\* Some(flag), or None when the expression raises: the decoded values of
\* this model are strings, and a string has no get (AttributeError)
AuthenticatedFlag(response) ==
  IF DictGet(response, "meta") # None THEN None
  ELSE Some(DictGet(response, "data") # None)

\* authenticate() that lets the error of the request through
AuthenticateOutcomeReraise(result, flag) ==
  IF result.kind = "raise"
  THEN [result |-> result, flag |-> flag]
  ELSE IF AuthenticatedFlag(result.value[1]) = None
       THEN [result |-> Raise(AuthenticationError), flag |-> flag]
  ELSE [result |-> [NoFlight EXCEPT !.kind = "return"],
        flag |-> AuthenticatedFlag(result.value[1])[1]]

\* authenticate() that sets the flag before it knows the result
AuthenticateOutcomeOptimistic(result, flag) ==
  IF result.kind = "raise"
  THEN [result |-> Raise(AuthenticationError), flag |-> TRUE]
  ELSE IF AuthenticatedFlag(result.value[1]) = None
       THEN [result |-> Raise(AuthenticationError), flag |-> flag]
  ELSE [result |-> [NoFlight EXCEPT !.kind = "return"],
        flag |-> AuthenticatedFlag(result.value[1])[1]]

\* authenticate() once _request has ended (lines 111-120): how it ends and
\* the value of _authenticated it leaves
AuthenticateOutcome(result, flag) ==
  IF result.kind = "raise"
  THEN [result |-> Raise(AuthenticationError), flag |-> flag]
  ELSE IF AuthenticatedFlag(result.value[1]) = None
       THEN [result |-> Raise(AuthenticationError), flag |-> flag]
  ELSE [result |-> [NoFlight EXCEPT !.kind = "return"],
        flag |-> AuthenticatedFlag(result.value[1])[1]]

ClientIdle ==
  /\ authenticated = FALSE
  /\ op = "none"
  /\ auth_result = NoFlight
  /\ auth_returned = FALSE
  /\ ops = 0
  /\ closed = 0
  /\ context = "none"

\* authenticate(): the probe request GET /ea/sites begins
Authenticate ==
  /\ pc = "idle"
  /\ ops < MaxOps
  /\ op' = "authenticate"
  /\ request' = [method |-> "GET", endpoint |-> "/ea/sites"]
  /\ frames' = <<[retry_count |-> 0, awaiting |-> "none"]>>
  /\ pc' = "acquire"
  /\ UNCHANGED <<settings, now, rate_limiter, pending, flight, outcomes,
                 sleeps, acquired, limiter_slept, log_records>>
  /\ UNCHANGED <<toolVars, limiterVars, authenticated, auth_result, auth_returned, ops, closed, context>>

\* authenticate() ends: the flag is set from the response, or the error of
\* the request is wrapped
AuthenticateReturn ==
  /\ pc = "done"
  /\ op = "authenticate"
  /\ LET out == AuthenticateOutcome(flight, authenticated)
     IN  /\ authenticated' = out.flag
         /\ auth_result' = out.result
         /\ auth_returned' = (auth_returned \/ out.result.kind = "return")
  /\ pc' = "returned"
  /\ UNCHANGED <<settings, now, rate_limiter, request, frames, pending, flight,
                 outcomes, sleeps, acquired, limiter_slept, log_records>>
  /\ UNCHANGED <<toolVars, limiterVars, op, ops, closed, context>>

\* get / post / put / delete ends: the caller has the value or the error
RequestReturn ==
  /\ pc = "done"
  /\ op = "none"
  /\ pc' = "returned"
  /\ UNCHANGED <<settings, now, rate_limiter, request, frames, pending, flight,
                 outcomes, sleeps, acquired, limiter_slept, log_records>>
  /\ UNCHANGED <<toolVars, limiterVars, clientVars>>

\* the caller goes on: the observations of the ended call are dropped
NextCall ==
  /\ pc = "returned"
  /\ pc' = "idle"
  /\ op' = "none"
  /\ ops' = ops + 1
  /\ request' = [method |-> "GET", endpoint |-> "/test"]
  /\ flight' = NoFlight
  /\ outcomes' = <<>>
  /\ sleeps' = <<>>
  /\ acquired' = 0
  /\ limiter_slept' = 0
  /\ log_records' = <<>>
  /\ UNCHANGED <<settings, now, rate_limiter, frames, pending>>
  /\ UNCHANGED <<toolVars, limiterVars, authenticated, auth_result, auth_returned, closed, context>>

\* close(): await self.client.aclose()
Close ==
  /\ pc = "idle"
  /\ ops < MaxOps
  /\ closed' = closed + 1
  /\ ops' = ops + 1
  /\ UNCHANGED <<settings, now, requestVars, limiterVars, toolVars>>
  /\ UNCHANGED <<authenticated, op, auth_result, auth_returned, context>>

\* "async with UniFiClient(settings) as client": __aenter__ returns self
Aenter ==
  /\ pc = "idle"
  /\ ops = 0
  /\ closed = 0
  /\ context = "none"
  /\ context' = "inside"
  /\ UNCHANGED <<settings, now, requestVars, limiterVars, toolVars>>
  /\ UNCHANGED <<authenticated, op, auth_result, auth_returned, ops, closed>>

\* the call the block is waiting for has raised
BlockRaised ==
  /\ pc = "returned"
  /\ IF op = "authenticate" THEN auth_result.kind = "raise"
                            ELSE flight.kind = "raise"

\* __aexit__ that closes the client only when the block ended normally
AexitOnlyNormal(raised, n) == IF raised THEN n ELSE n + 1

\* __aexit__(exc_type, exc_val, exc_tb): await self.close(), whatever the
\* arguments; the calls of client.aclose() after it
Aexit(raised, n) == n + 1

\* the block is left: at its end, or by an exception that a call of the
\* client or the block itself raised; __aexit__ returns None, so the
\* exception goes on to the caller
LeaveBlock(raised) ==
  /\ context = "inside"
  /\ pc \in {"idle", "returned"}
  /\ BlockRaised => raised
  /\ context' = IF raised THEN "raised" ELSE "left"
  /\ closed' = Aexit(raised, closed)
  /\ UNCHANGED <<settings, now, requestVars, limiterVars, toolVars>>
  /\ UNCHANGED <<authenticated, op, auth_result, auth_returned, ops>>

\* ------------------------------ concurrent logical requests of one client
\* Two tasks run get/post/put/delete on the same client.  Each logical
\* request is a chain of awaits: acquire(), the transport call, the retry
\* sleep and the recursive call; the tasks share the limiter of the client.
Requesters == {t \in Tasks : ClientOf(t) = "c1"}

ConcurrentOutcomes ==
  { [kind |-> "response", response |-> Response(200, None, ObjectBody)],
    [kind |-> "response", response |-> Response(404, None, TextBody)],
    [kind |-> "response", response |-> Response(429, Some(<<"2">>), TextBody)],
    [kind |-> "httpx.TimeoutException"] }

\* one activation of _request: when it was entered, when its transport call
\* was made and answered, and the retry sleep it went into
NewAttempt(t) == [entered_at |-> t, sent_at |-> -1, resolved_at |-> -1, sleep |-> 0]

IdleRequest == [pc |-> "idle", retry_count |-> 0, wake |-> 0, log |-> <<>>]

\* the acquire() calls of a task that have returned
AdmittedTo(t) ==
  Cardinality({i \in 1..Len(admitted[LimiterOf(t)]) :
                 admitted[LimiterOf(t)][i].task = t})

\* the acquire() of the current activation is still to be made or going on
Acquiring(t) == reqs[t].pc = "acquire" /\ AdmittedTo(t) < Len(reqs[t].log)

\* a retry that does not wait for its sleep
WokenAtOnce(req) == TRUE

\* await asyncio.sleep(...) has returned
Woken(req) == now >= req.wake

\* get / post / put / delete: the first activation of _request
ReqStart(t) ==
  /\ reqs[t].pc = "idle"
  /\ reqs' = [reqs EXCEPT ![t].pc = "acquire", ![t].log = <<NewAttempt(now)>>]
  /\ UNCHANGED <<settings, now, requestVars, limiterVars, clientVars>>
  /\ UNCHANGED <<call, api_calls, audit_log, tool_result, zone, assigns>>

\* acquire() has returned: self.client.request(...) is awaited
ReqSend(t) ==
  /\ reqs[t].pc = "acquire"
  /\ tasks[t].pc = "idle"
  /\ AdmittedTo(t) = Len(reqs[t].log)
  /\ reqs' = [reqs EXCEPT ![t].pc = "transport",
                          ![t].log[Len(reqs[t].log)].sent_at = now]
  /\ UNCHANGED <<settings, now, requestVars, limiterVars, clientVars>>
  /\ UNCHANGED <<call, api_calls, audit_log, tool_result, zone, assigns>>

\* the transport call ends: the try body and the except clauses decide
\* between the retry sleep and the end of the request
ReqResolve(t, outcome) ==
  /\ reqs[t].pc = "transport"
  /\ LET effect ==
           ExceptClauses(IF outcome.kind = "response"
                         THEN TryBody(outcome.response, "/test", reqs[t].retry_count)
                         ELSE Raise(RawExc(outcome.kind)),
                         reqs[t].retry_count)
         n == Len(reqs[t].log)
     IN  reqs' =
           IF effect.kind = "retry"
           THEN [reqs EXCEPT ![t].pc = "sleep",
                             ![t].wake = now + effect.seconds * TicksPerSecond,
                             ![t].log[n].resolved_at = now,
                             ![t].log[n].sleep = effect.seconds]
           ELSE [reqs EXCEPT ![t].pc = "done",
                             ![t].log[n].resolved_at = now]
  /\ UNCHANGED <<settings, now, requestVars, limiterVars, clientVars>>
  /\ UNCHANGED <<call, api_calls, audit_log, tool_result, zone, assigns>>

\* the retry sleep is over: the recursive call of _request
ReqWake(t) ==
  /\ reqs[t].pc = "sleep"
  /\ Woken(reqs[t])
  /\ reqs' = [reqs EXCEPT ![t].pc = "acquire",
                          ![t].retry_count = @ + 1,
                          ![t].log = Append(@, NewAttempt(now))]
  /\ UNCHANGED <<settings, now, requestVars, limiterVars, clientVars>>
  /\ UNCHANGED <<call, api_calls, audit_log, tool_result, zone, assigns>>

\* time passes until a sleep in progress is over: the retry sleep of a
\* request or the sleep of its acquire()
ReqAdvance ==
  /\ \E t \in Requesters :
       \/ /\ reqs[t].pc = "sleep"
          /\ now < reqs[t].wake
          /\ now' = reqs[t].wake
       \/ /\ tasks[t].pc = "sleeping"
          /\ now < tasks[t].wake
          /\ now' = tasks[t].wake
  /\ UNCHANGED <<settings, requestVars, limiterVars, clientVars, toolVars>>

\* --------------------------------- concurrent assign_network_to_zone calls
\* Several tasks call assign_network_to_zone with confirm=True on the same
\* zone.  Each call reads the zone with a GET and, for a network that is
\* not in the list it read, writes the list it read plus the network with
\* a PUT; the controller keeps the list of the last PUT.
Networks == {"net-a", "net-b", "net-c"}

InList(n, list) == \E i \in 1..Len(list) : list[i] = n

IdleAssign ==
  [pc |-> "idle", network_id |-> "none", dry_run |-> FALSE,
   current_networks |-> <<>>, result |-> "none"]

\* the call, up to the zone GET: validate_confirmation, authenticate and
\* the GET of the network name, whose failure is only logged
AssignCall(t, network_id, dry_run) ==
  /\ assigns[t].pc = "idle"
  /\ assigns[t].result = "none"
  /\ assigns' = [assigns EXCEPT ![t].pc = "get", ![t].network_id = network_id,
                                ![t].dry_run = dry_run]
  /\ UNCHANGED <<settings, now, requestVars, limiterVars, clientVars>>
  /\ UNCHANGED <<call, api_calls, audit_log, tool_result, reqs, zone>>

\* the zone GET and the tests that follow it (lines 205-225)
AssignGet(t, ok) ==
  /\ assigns[t].pc = "get"
  /\ assigns' =
       IF ~ok THEN [assigns EXCEPT ![t].pc = "idle", ![t].result = "raised"]
       ELSE IF InList(assigns[t].network_id, zone)
       THEN [assigns EXCEPT ![t].pc = "idle", ![t].result = "assigned",
                            ![t].current_networks = zone]
       ELSE IF assigns[t].dry_run
       THEN [assigns EXCEPT ![t].pc = "idle", ![t].result = "dry_run",
                            ![t].current_networks = zone]
       ELSE [assigns EXCEPT ![t].pc = "put", ![t].current_networks = zone]
  /\ UNCHANGED <<settings, now, requestVars, limiterVars, clientVars>>
  /\ UNCHANGED <<call, api_calls, audit_log, tool_result, reqs, zone>>

\* the zone PUT with {"networks": current_networks + [network_id]}, the
\* audit entry and the return (lines 219-247)
AssignPut(t, ok) ==
  /\ assigns[t].pc = "put"
  /\ IF ok
     THEN /\ zone' = Append(assigns[t].current_networks, assigns[t].network_id)
          /\ assigns' = [assigns EXCEPT ![t].pc = "idle", ![t].result = "assigned"]
          /\ audit_log' = Append(audit_log, [operation |-> "assign_network_to_zone",
                                             result |-> "success"])
     ELSE /\ assigns' = [assigns EXCEPT ![t].pc = "idle", ![t].result = "raised"]
          /\ UNCHANGED <<zone, audit_log>>
  /\ UNCHANGED <<settings, now, requestVars, limiterVars, clientVars>>
  /\ UNCHANGED <<call, api_calls, tool_result, reqs>>

TasksIdle ==
  /\ reqs = [t \in Tasks |-> IdleRequest]
  /\ zone = <<>>
  /\ assigns = [t \in Tasks |-> IdleAssign]

\* ----------------------------------------------------------- the tools
\* Each tool validates its arguments, then either reports a dry run or
\* makes its client calls inside "async with UniFiClient(settings)".  A
\* client call is taken as a whole here: it returns a response or raises
\* one of the errors of the client.  validate_confirmation, audit_action
\* and the backup methods of the client (trigger_backup, download_backup,
\* delete_backup, restore_backup) are not part of the available sources;
\* they follow the tests and the call sites.
ClientTools == {"block_client", "unblock_client", "reconnect_client"}

BackupTools ==
  {"trigger_backup", "download_backup", "delete_backup", "restore_backup"}

ZoneTools ==
  {"create_firewall_zone", "update_firewall_zone", "assign_network_to_zone"}

\* the tools that take confirm and dry_run
MutatingTools == (ClientTools \cup BackupTools \cup ZoneTools) \ {"download_backup"}

ValidationError == RawExc("ValidationError")

\* validate_confirmation(confirm, operation): the exception it raises, if any
ValidateConfirmation(confirm) == IF confirm THEN None ELSE Some(ValidationError)

NoCall ==
  [name |-> "none", confirm |-> FALSE, dry_run |-> FALSE,
   create_pre_restore_backup |-> FALSE, pc |-> 0,
   pre_restore_backup_id |-> None]

\* the steps of a tool, in the order of its statements
Script(c) ==
  CASE c.name \in {"block_client", "reconnect_client"} ->
         <<"validate", "dry_run", "authenticate", "get", "found", "mutate",
           "audit", "return">>
    [] c.name \in {"unblock_client", "trigger_backup", "delete_backup"} ->
         <<"validate", "dry_run", "authenticate", "mutate", "audit", "return">>
    [] c.name = "download_backup" ->
         <<"authenticate", "read", "audit", "return">>
    [] c.name = "restore_backup" ->
         <<"validate", "dry_run", "authenticate">>
           \o (IF c.create_pre_restore_backup
               THEN <<"pre_authenticate", "pre_trigger", "pre_audit">>
               ELSE <<>>)
           \o <<"mutate", "audit", "return">>
    [] c.name \in {"create_firewall_zone", "update_firewall_zone"} ->
         <<"validate", "authenticate", "dry_run", "mutate", "audit", "return">>
    [] c.name = "assign_network_to_zone" ->
         <<"validate", "authenticate", "get_optional", "get", "member",
           "dry_run", "mutate", "audit", "return">>
    [] OTHER -> <<>>

Step == IF call.pc \in 1..Len(Script(call)) THEN Script(call)[call.pc] ELSE "none"

\* the client method a step calls
ApiOf(name, step) ==
  CASE step \in {"authenticate", "pre_authenticate"} -> "authenticate"
    [] step \in {"get", "get_optional"} -> "GET"
    [] step = "read" -> "download_backup"
    [] step = "pre_trigger" -> "trigger_backup"
    [] step = "mutate" /\ name \in ClientTools \cup {"create_firewall_zone"} -> "POST"
    [] step = "mutate" /\ name \in {"update_firewall_zone", "assign_network_to_zone"} -> "PUT"
    [] step = "mutate" /\ name \in BackupTools -> name
    [] OTHER -> "none"

MutatingApis ==
  {"POST", "PUT", "DELETE", "trigger_backup", "delete_backup", "restore_backup"}

\* the errors a client call raises
ApiErrors == {NetworkError, AuthenticationError, APIError(Some(500), None)}

ToolIdle ==
  /\ call = NoCall
  /\ api_calls = <<>>
  /\ audit_log = <<>>
  /\ tool_result = NoFlight
  /\ TasksIdle

\* the keyword parameters of log_audit (utils/audit.py)
LogAuditParams ==
  {"operation", "parameters", "result", "user", "site_id", "dry_run", "log_file"}

\* log_audit(**kwargs): the audit log after the call, or None when the call
\* itself raises TypeError for a keyword it does not have; a failure to
\* write the file is swallowed by log_operation
LogAudit(log, operation, result, kwargs) ==
  IF kwargs \subseteq LogAuditParams
  THEN Some(Append(log, [operation |-> operation, result |-> result]))
  ELSE None

\* the keywords the except clause of a tool passes to log_audit
ExceptKwargs(name) ==
  IF name \in BackupTools
  THEN {"operation", "parameters", "result", "error", "site_id"}
  ELSE {"operation", "parameters", "result", "site_id"}

\* the except clause of a tool, for an exception raised inside its try
\* statement: the audit entry, then a bare raise; the zone tools have no
\* try statement
ExceptClause(name, exc, log) ==
  IF name \in ZoneTools THEN [result |-> Raise(exc), log |-> log]
  ELSE LET written == LogAudit(log, name,
                               IF name \in BackupTools THEN "error" ELSE "failed",
                               ExceptKwargs(name))
       IN  IF written = None
           THEN [result |-> Raise(RawExc("TypeError")), log |-> log]
           ELSE [result |-> Raise(exc), log |-> written[1]]

\* the response of client.trigger_backup: {"data": {"url": ..., "id": ...}}
BackupResponses ==
  { [id |-> "bk1", url |-> "/data/backup/b1.unf"],
    [id |-> "", url |-> "/data/backup/b1.unf"],
    [id |-> "", url |-> ""] }

\* result["backup_id"] of trigger_backup: backup_id or the file name without
\* ".unf", the file name being the last segment of the url or a time stamp
BackupIdOf(r) ==
  IF r.id # "" THEN r.id
  ELSE IF r.url # "" THEN "b1" ELSE "backup_now"

\* the dictionary a tool returns
Result(status, dry_run) ==
  [status |-> status, dry_run |-> dry_run,
   pre_restore_backup_id |-> None, can_rollback |-> FALSE]

\* a result of restore_backup that always promises a rollback
RestoreResultAlwaysRollback(pre_restore_backup_id) ==
  [status |-> "restore_initiated", dry_run |-> FALSE,
   pre_restore_backup_id |-> pre_restore_backup_id,
   can_rollback |-> TRUE]

\* the result of restore_backup
RestoreResult(pre_restore_backup_id) ==
  [status |-> "restore_initiated", dry_run |-> FALSE,
   pre_restore_backup_id |-> pre_restore_backup_id,
   can_rollback |-> pre_restore_backup_id # None]

\* the tool ends with a value or an exception
Finish(effect) ==
  /\ tool_result' = effect
  /\ call' = [call EXCEPT !.pc = 0]

Advance == call' = [call EXCEPT !.pc = @ + 1]

\* a tool is called
ToolCall(name, confirm, dry_run, create_pre_restore_backup) ==
  /\ call = NoCall
  /\ tool_result = NoFlight
  /\ name = "download_backup" => (~confirm /\ ~dry_run)
  /\ name # "restore_backup" => ~create_pre_restore_backup
  /\ call' = [name |-> name, confirm |-> confirm, dry_run |-> dry_run,
              create_pre_restore_backup |-> create_pre_restore_backup,
              pc |-> 1, pre_restore_backup_id |-> None]
  /\ UNCHANGED <<settings, now, requestVars, limiterVars, clientVars, taskVars>>
  /\ UNCHANGED <<api_calls, audit_log, tool_result>>

\* validate_confirmation(confirm, ...), before the try statement
ToolValidate ==
  /\ Step = "validate"
  /\ LET e == ValidateConfirmation(call.confirm)
     IN  IF e = None THEN Advance /\ UNCHANGED tool_result
         ELSE Finish(Raise(e[1]))
  /\ UNCHANGED <<settings, now, requestVars, limiterVars, clientVars, taskVars>>
  /\ UNCHANGED <<api_calls, audit_log>>

\* "if dry_run:": the client and backup tools write an audit entry and
\* return, the zone tools return the payload
ToolDryRun ==
  /\ Step = "dry_run"
  /\ IF call.dry_run
     THEN /\ Finish(Return(Result("dry_run", TRUE)))
          /\ audit_log' =
               IF call.name \in ZoneTools THEN audit_log
               ELSE LogAudit(audit_log, call.name, "dry_run",
                             {"operation", "parameters", "result", "site_id",
                              "dry_run"})[1]
     ELSE Advance /\ UNCHANGED <<tool_result, audit_log>>
  /\ UNCHANGED <<settings, now, requestVars, limiterVars, clientVars, taskVars>>
  /\ UNCHANGED api_calls

ApiSteps ==
  {"authenticate", "get", "get_optional", "read", "mutate",
   "pre_authenticate", "pre_trigger"}

\* what the tool does with an exception raised at a step inside its try
\* statement; the steps of the pre-restore backup run inside the try
\* statement of trigger_backup, itself inside the one of restore_backup
Failed(step, exc) ==
  IF step \in {"pre_authenticate", "pre_trigger"}
  THEN LET inner == ExceptClause("trigger_backup", exc, audit_log)
       IN  ExceptClause(call.name, inner.result.exc, inner.log)
  ELSE ExceptClause(call.name, exc, audit_log)

\* one call of the client: it returns (response) or raises (exc);
\* authenticate() raises AuthenticationError only
ToolApi(ok, exc, response) ==
  /\ Step \in ApiSteps
  /\ (~ok /\ Step \in {"authenticate", "pre_authenticate"}) =>
       exc = AuthenticationError
  /\ api_calls' = Append(api_calls,
                         [api |-> ApiOf(call.name, Step), step |-> Step,
                          ok |-> ok, response |-> response,
                          exc |-> IF ok THEN NoExc ELSE exc])
  /\ IF ok \/ Step = "get_optional"
     THEN Advance /\ UNCHANGED <<tool_result, audit_log>>
     ELSE /\ Finish(Failed(Step, exc).result)
          /\ audit_log' = Failed(Step, exc).log
  /\ UNCHANGED <<settings, now, requestVars, limiterVars, clientVars, taskVars>>

\* the test on the response of the GET: block_client and reconnect_client
\* raise ResourceNotFoundError for an unknown client, assign_network_to_zone
\* returns at once for a network that is already in the zone
ToolCheck(found) ==
  /\ Step \in {"found", "member"}
  /\ IF Step = "found"
     THEN IF found THEN Advance /\ UNCHANGED <<tool_result, audit_log>>
          ELSE LET e == ResourceNotFoundError("client", "mac")
               IN  /\ Finish(Failed(Step, e).result)
                   /\ audit_log' = Failed(Step, e).log
     ELSE IF found
          THEN Finish(Return(Result("assigned", FALSE))) /\ UNCHANGED audit_log
          ELSE Advance /\ UNCHANGED <<tool_result, audit_log>>
  /\ UNCHANGED <<settings, now, requestVars, limiterVars, clientVars, taskVars>>
  /\ UNCHANGED api_calls

\* the audit entry of the success: log_audit(result="success") or
\* audit_action; after the one of the pre-restore backup trigger_backup
\* returns and restore_backup keeps result["backup_id"]
ToolAudit ==
  /\ Step \in {"audit", "pre_audit"}
  /\ audit_log' =
       IF Step = "pre_audit"
       THEN LogAudit(audit_log, "trigger_backup", "success",
                     {"operation", "parameters", "result", "site_id"})[1]
       ELSE IF call.name \in ZoneTools
       THEN Append(audit_log, [operation |-> call.name, result |-> "success"])
       ELSE LogAudit(audit_log, call.name, "success",
                     {"operation", "parameters", "result", "site_id"})[1]
  /\ call' = [call EXCEPT
                !.pc = @ + 1,
                !.pre_restore_backup_id =
                   IF Step = "pre_audit"
                   THEN Some(BackupIdOf(api_calls[Len(api_calls)].response))
                   ELSE @]
  /\ UNCHANGED <<settings, now, requestVars, limiterVars, clientVars, taskVars>>
  /\ UNCHANGED <<api_calls, tool_result>>

\* the return statement at the end of the try statement
ToolReturn ==
  /\ Step = "return"
  /\ Finish(Return(IF call.name = "restore_backup"
                   THEN RestoreResult(call.pre_restore_backup_id)
                   ELSE Result("success", FALSE)))
  /\ UNCHANGED <<settings, now, requestVars, limiterVars, clientVars, taskVars>>
  /\ UNCHANGED <<api_calls, audit_log>>

\* ------------------------------------------------------- specification
RateConfigs == {<<1, 3>>, <<2, 3>>}

SettingsSpace ==
  { [max_retries |-> m, retry_backoff_factor |-> f,
     rate_limit_requests |-> rc[1], rate_limit_period |-> rc[2],
     log_api_requests |-> TRUE] :
      m \in 0..MaxRetriesBound, f \in BackoffFactors, rc \in RateConfigs }

RequestIdle ==
  /\ rate_limiter = NewRateLimiter(settings.rate_limit_requests,
                                   settings.rate_limit_period, 0)
  /\ pc = "idle"
  /\ request = [method |-> "GET", endpoint |-> "/test"]
  /\ frames = <<>>
  /\ pending = NoFlight
  /\ flight = NoFlight
  /\ outcomes = <<>>
  /\ sleeps = <<>>
  /\ acquired = 0
  /\ limiter_slept = 0
  /\ log_records = <<>>

Init ==
  /\ settings \in SettingsSpace
  /\ now = 0
  /\ RequestIdle
  /\ LimiterIdle
  /\ ClientIdle
  /\ ToolIdle

Next ==
  \/ \E method \in Methods, endpoint \in Endpoints : Request(method, endpoint)
  \/ Acquire
  \/ \E outcome \in TransportOutcomes : Attempt(outcome)
  \/ RetrySleep
  \/ Unwind
  \/ Complete

Spec == Init /\ [][Next]_vars

\* every transport call and every sleep completes, and the event loop runs
\* the continuation of the request
RequestFairness ==
  /\ WF_vars(Acquire)
  /\ WF_vars(\E outcome \in TransportOutcomes : Attempt(outcome))
  /\ WF_vars(RetrySleep)
  /\ WF_vars(Unwind)
  /\ WF_vars(Complete)

\* the settings of the runs checked for termination: every retry budget,
\* one backoff factor and the smaller bucket
FairSettings ==
  {st \in SettingsSpace :
     /\ st.retry_backoff_factor = 2
     /\ st.rate_limit_requests = 1}

InitFair ==
  /\ settings \in FairSettings
  /\ now = 0
  /\ RequestIdle
  /\ LimiterIdle
  /\ ClientIdle
  /\ ToolIdle

SpecFair == InitFair /\ [][Next]_vars /\ RequestFairness

\* one client over several public calls: get/post/put/delete,
\* authenticate() and close(), one after the other
ProbeBody == <<Punct("{"), Str("data"), Punct(":"), Str("sites"), Punct("}")>>

MetaBody == <<Punct("{"), Str("meta"), Punct(":"), Str("ok"), Punct("}")>>

ClientOutcomes ==
  { [kind |-> "response", response |-> Response(200, None, b)] :
      b \in {ProbeBody, MetaBody, ObjectBody, EmptyBody} }
  \cup
  { [kind |-> "response", response |-> Response(st, None, TextBody)] :
      st \in {401, 404, 500} }
  \cup
  { [kind |-> "response", response |-> Response(429, h, TextBody)] :
      h \in {None, Some(<<"2">>)} }
  \cup
  { [kind |-> k, response |-> Response(0, None, EmptyBody)] :
      k \in {"httpx.TimeoutException", "httpx.NetworkError", "Exception"} }

ClientSettings ==
  {st \in SettingsSpace :
     /\ st.max_retries \in {0, 1}
     /\ st.retry_backoff_factor = 2
     /\ st.rate_limit_requests = 2}

InitClient ==
  /\ settings \in ClientSettings
  /\ now = 0
  /\ RequestIdle
  /\ LimiterIdle
  /\ ClientIdle
  /\ ToolIdle

\* a closed httpx client raises RuntimeError on every request
NextClient ==
  \/ \E method \in Methods, endpoint \in Endpoints :
       ops < MaxOps /\ Request(method, endpoint)
  \/ Authenticate
  \/ Acquire
  \/ \E outcome \in ClientOutcomes :
       (closed > 0 => outcome.kind = "Exception") /\ Attempt(outcome)
  \/ RetrySleep
  \/ Unwind
  \/ Complete
  \/ AuthenticateReturn
  \/ RequestReturn
  \/ NextCall
  \/ Close

SpecClient == InitClient /\ [][NextClient]_vars

\* the limiters under concurrent callers; the lock is granted in the order
\* of arrival, sleeps end and time passes
LimiterSettings == {st \in SettingsSpace : st.max_retries = 0 /\ st.retry_backoff_factor = 2}

InitLimiter ==
  /\ settings \in LimiterSettings
  /\ now = 0
  /\ RequestIdle
  /\ LimiterIdle
  /\ ClientIdle
  /\ ToolIdle

NextLimiter ==
  \/ \E t \in Tasks : AcquireEnter(t)
  \/ \E t \in Tasks : AcquireRefill(t)
  \/ \E t \in Tasks : AcquireWake(t)
  \/ Tick

LimiterFairness ==
  /\ \A t \in Tasks : WF_vars(AcquireRefill(t))
  /\ \A t \in Tasks : WF_vars(AcquireWake(t))
  /\ WF_vars(Tick)

SpecLimiter == InitLimiter /\ [][NextLimiter]_vars /\ LimiterFairness

\* the concurrent callers of one limiter, for the progress of acquire()
Callers == {t \in Tasks : ClientOf(t) = "c1"}

NextAcquire ==
  \/ \E t \in Callers : AcquireEnter(t)
  \/ \E t \in Callers : AcquireRefill(t)
  \/ \E t \in Callers : AcquireWake(t)
  \/ Tick

SpecAcquire == InitLimiter /\ [][NextAcquire]_vars /\ LimiterFairness

\* one logical request whose log writes may fail
LoggingSettings ==
  {st \in SettingsSpace :
     /\ st.max_retries \in {0, 1}
     /\ st.retry_backoff_factor = 2
     /\ st.rate_limit_requests = 2}

InitLogging ==
  /\ settings \in LoggingSettings
  /\ now = 0
  /\ RequestIdle
  /\ LimiterIdle
  /\ ClientIdle
  /\ ToolIdle

NextLogging ==
  \/ \E method \in Methods, endpoint \in Endpoints : Request(method, endpoint)
  \/ Acquire
  \/ \E outcome \in TransportOutcomes : Attempt(outcome)
  \/ \E outcome \in TransportOutcomes : AttemptLogFails(outcome)
  \/ RetrySleep
  \/ Unwind
  \/ Complete

SpecLogging == InitLogging /\ [][NextLogging]_vars

\* one client used as a context manager: the calls are made inside the
\* block
NextContext ==
  \/ Aenter
  \/ \E method \in Methods, endpoint \in Endpoints :
       context = "inside" /\ ops < MaxOps /\ Request(method, endpoint)
  \/ context = "inside" /\ Authenticate
  \/ Acquire
  \/ \E outcome \in ClientOutcomes : Attempt(outcome)
  \/ RetrySleep
  \/ Unwind
  \/ Complete
  \/ AuthenticateReturn
  \/ RequestReturn
  \/ NextCall
  \/ \E raised \in BOOLEAN : LeaveBlock(raised)

SpecContext == InitClient /\ [][NextContext]_vars

\* one call of a tool
Tools == ClientTools \cup BackupTools \cup ZoneTools

NoResponse == [id |-> "", url |-> ""]

ToolSettings ==
  {st \in SettingsSpace :
     /\ st.max_retries = 0
     /\ st.retry_backoff_factor = 2
     /\ st.rate_limit_requests = 2}

InitTools ==
  /\ settings \in ToolSettings
  /\ now = 0
  /\ RequestIdle
  /\ LimiterIdle
  /\ ClientIdle
  /\ ToolIdle

NextTools ==
  \/ \E name \in Tools, confirm \in BOOLEAN, dry_run \in BOOLEAN,
        create_pre_restore_backup \in BOOLEAN :
       ToolCall(name, confirm, dry_run, create_pre_restore_backup)
  \/ ToolValidate
  \/ ToolDryRun
  \/ \E response \in BackupResponses :
       /\ Step = "pre_trigger" \/ response = NoResponse
       /\ ToolApi(TRUE, NetworkError, response)
  \/ \E exc \in ApiErrors : ToolApi(FALSE, exc, NoResponse)
  \/ \E found \in BOOLEAN : ToolCheck(found)
  \/ ToolAudit
  \/ ToolReturn

SpecTools == InitTools /\ [][NextTools]_vars

\* two logical requests on one client, run by concurrent tasks
RequestsSettings ==
  {st \in SettingsSpace :
     /\ st.max_retries \in {1, 2}
     /\ st.retry_backoff_factor = 2
     /\ st.rate_limit_requests = 1}

InitRequests ==
  /\ settings \in RequestsSettings
  /\ now = 0
  /\ RequestIdle
  /\ LimiterIdle
  /\ ClientIdle
  /\ ToolIdle

NextRequests ==
  \/ \E t \in Requesters : ReqStart(t)
  \/ \E t \in Requesters : Acquiring(t) /\ AcquireEnter(t)
  \/ \E t \in Requesters : AcquireRefill(t)
  \/ \E t \in Requesters : AcquireWake(t)
  \/ \E t \in Requesters : ReqSend(t)
  \/ \E t \in Requesters, outcome \in ConcurrentOutcomes : ReqResolve(t, outcome)
  \/ \E t \in Requesters : ReqWake(t)
  \/ ReqAdvance

SpecRequests == InitRequests /\ [][NextRequests]_vars

\* assign_network_to_zone called by concurrent tasks on one zone
InitZone ==
  /\ settings \in ToolSettings
  /\ now = 0
  /\ RequestIdle
  /\ LimiterIdle
  /\ ClientIdle
  /\ call = NoCall
  /\ api_calls = <<>>
  /\ audit_log = <<>>
  /\ tool_result = NoFlight
  /\ reqs = [t \in Tasks |-> IdleRequest]
  /\ zone \in {<<>>, <<"net-c">>}
  /\ assigns = [t \in Tasks |-> IdleAssign]

NextZone ==
  \/ \E t \in Tasks, network_id \in Networks, dry_run \in BOOLEAN :
       AssignCall(t, network_id, dry_run)
  \/ \E t \in Tasks, ok \in BOOLEAN : AssignGet(t, ok)
  \/ \E t \in Tasks, ok \in BOOLEAN : AssignPut(t, ok)

SpecZone == InitZone /\ [][NextZone]_vars

\* ================================================================ claims
Attempts == Len(outcomes)

LastOutcome == outcomes[Len(outcomes)]

IsTransient(o) == o.kind \in {"httpx.TimeoutException", "httpx.NetworkError"}

Is429(o) == o.kind = "response" /\ o.response.status_code = 429

HasStatus(o, statuses) == o.kind = "response" /\ o.response.status_code \in statuses

AllTransient == \A i \in 1..Len(outcomes) : IsTransient(outcomes[i])

All429 == \A i \in 1..Len(outcomes) : Is429(outcomes[i])

\* the innermost activation has just finished its attempt
JustAttempted == pc \in {"sleep", "unwind"} /\ Len(frames) = Len(outcomes)

\* the logical request has raised or returned, in the innermost activation
\* or at the caller of get/post/put/delete
Resolved == (pc = "unwind" /\ Len(frames) = Len(outcomes)) \/ pc = "done"

\* the wait value of a 429 response as the specification defines it: the
\* integer of the header, 60 when the header is missing or unparseable
WaitValue(o) ==
  IF o.response.retry_after = None THEN 60
  ELSE IF PyInt(o.response.retry_after[1]) = None THEN 60
  ELSE PyInt(o.response.retry_after[1])[1]

\* C1: with max_retries = N and every physical attempt failing with a
\* timeout or connection failure, the logical request makes exactly N+1
\* physical attempts and then raises NetworkError.
C1_TransientRetryBound ==
  (outcomes # <<>> /\ AllTransient) =>
    /\ Attempts <= settings.max_retries + 1
    /\ Attempts <= settings.max_retries => pc \in {"sleep", "acquire", "transport"}
    /\ Attempts = settings.max_retries + 1 =>
         /\ pc \in {"unwind", "done"}
         /\ flight = Raise(NetworkError)

C1_Witness ==
  /\ pc = "done"
  /\ AllTransient
  /\ settings.max_retries = 3
  /\ Attempts = 4
  /\ flight.exc.type = "NetworkError"

\* C2 (as claimed): when every physical attempt is answered with 429, the
\* request sleeps the wait value before each of max_retries retries and
\* then raises RateLimitError carrying the wait value of the last response,
\* and no other error kind.
C2_AlwaysRateLimited ==
  (pc = "done" /\ All429) =>
    /\ flight.kind = "raise"
    /\ flight.exc = RateLimitError(WaitValue(LastOutcome))
    /\ Len(sleeps) = settings.max_retries
    /\ \A i \in 1..Len(sleeps) : sleeps[i].seconds = WaitValue(outcomes[i])

\* C3 (as claimed): on a 429 whose Retry-After header is missing or not
\* parseable as an integer, the wait value slept and carried by
\* RateLimitError is 60 seconds.
C3_DefaultWaitIs60 ==
  (JustAttempted /\ Is429(LastOutcome)
     /\ (\/ LastOutcome.response.retry_after = None
         \/ PyInt(LastOutcome.response.retry_after[1]) = None)) =>
    IF Attempts <= settings.max_retries
    THEN pc = "sleep" /\ pending.seconds = 60
    ELSE pc = "unwind" /\ flight = Raise(RateLimitError(60))

\* C4: a 404 response always raises ResourceNotFoundError("resource", path),
\* an APIError with status_code 404, and a 401 or 403 response always
\* raises AuthenticationError, whatever the retry count, method and body.
C4_StatusMapping ==
  (Resolved /\ outcomes # <<>>) =>
    /\ HasStatus(LastOutcome, {404}) =>
         /\ flight.kind = "raise"
         /\ flight.exc.type = "ResourceNotFoundError"
         /\ "APIError" \in Bases(flight.exc.type)
         /\ flight.exc.status_code = Some(404)
         /\ flight.exc.resource_type = Some("resource")
         /\ flight.exc.resource_id = Some(request.endpoint)
    /\ HasStatus(LastOutcome, {401, 403}) =>
         /\ flight.kind = "raise"
         /\ flight.exc.type = "AuthenticationError"

C4_Witness ==
  /\ pc = "done"
  /\ Attempts = 3
  /\ Is429(outcomes[1])
  /\ IsTransient(outcomes[2])
  /\ HasStatus(outcomes[3], {404})
  /\ request = [method |-> "DELETE", endpoint |-> "/widgets/abc"]
  /\ flight.exc.resource_id = Some("/widgets/abc")

\* C5: a status >= 400 other than 401, 403, 404 and 429 raises APIError
\* with that status and the body parsed as JSON when it parses, no
\* response_data when it does not; the parse failure never replaces it.
C5_GenericAPIError ==
  (Resolved /\ outcomes # <<>> /\ HasStatus(LastOutcome, {400, 500})) =>
    /\ flight.kind = "raise"
    /\ flight.exc.type = "APIError"
    /\ flight.exc.status_code = Some(LastOutcome.response.status_code)
    /\ LastOutcome.response.text = ObjectBody =>
         flight.exc.response_data = Some({<<"error", "internal">>})
    /\ LastOutcome.response.text \in {EmptyBody, WhitespaceBody, TextBody} =>
         flight.exc.response_data = None

C5_Witness ==
  /\ pc = "done"
  /\ Attempts = 2
  /\ HasStatus(LastOutcome, {500})
  /\ LastOutcome.response.text = TextBody
  /\ flight.exc = APIError(Some(500), None)

\* C6 (as claimed): a successful response (status < 400) with an empty or
\* whitespace-only body makes the request return the empty dictionary and
\* never raise.
C6_EmptyBodyReturnsEmptyDict ==
  (Resolved /\ outcomes # <<>>
     /\ HasStatus(LastOutcome, {200, 204})
     /\ LastOutcome.response.text \in {EmptyBody, WhitespaceBody}) =>
    flight = Return({})

\* C7: a failure of a logical request surfaces as one of the five typed
\* errors, and a failure that is not a timeout, a connection failure or an
\* HTTP error status (a body that does not decode on a successful status,
\* an unexpected exception in the attempt) surfaces as APIError.
C7_ClosedTaxonomy ==
  /\ pc \in {"unwind", "done"} =>
       /\ flight.kind \in {"return", "raise"}
       /\ flight.kind = "raise" => flight.exc.type \in TypedErrors
  /\ (Resolved /\ outcomes # <<>>) =>
       /\ LastOutcome.kind = "Exception" => flight = Raise(APIError(None, None))
       /\ (HasStatus(LastOutcome, {200, 204}) /\ LastOutcome.response.text = TextBody) =>
            flight = Raise(APIError(None, None))

C7_Witness ==
  /\ pc = "done"
  /\ Attempts = 2
  /\ Is429(outcomes[1])
  /\ HasStatus(LastOutcome, {200})
  /\ LastOutcome.response.text = TextBody
  /\ flight.exc.type = "APIError"

\* C8 (as claimed): when the last physical attempt hit a timeout or
\* connection failure with no retries left, the caller receives
\* NetworkError, whatever the earlier attempts met, retried 429s included.
C8_ExhaustedTransientIsNetworkError ==
  (pc = "done" /\ IsTransient(LastOutcome) /\ Attempts = settings.max_retries + 1) =>
    flight = Raise(NetworkError)

\* C9: a further physical attempt is started only after an attempt that
\* ended in 429, a timeout or a connection failure; after any other
\* outcome the request raises (or returns) at once and makes no further
\* attempt.
C9_OnlyRetryableOutcomesRetry ==
  [][/\ (Len(outcomes') > Len(outcomes) /\ outcomes # <<>>) =>
          (Is429(LastOutcome) \/ IsTransient(LastOutcome))
     /\ (Len(outcomes') > Len(outcomes)
           /\ ~Is429(outcomes'[Len(outcomes')])
           /\ ~IsTransient(outcomes'[Len(outcomes')])) =>
          (pc' = "unwind" /\ flight'.kind \in {"raise", "return"})
     /\ (pc = "unwind" /\ outcomes # <<>>) => pc' \in {"unwind", "done"}
    ]_vars

C9_Witness ==
  /\ pc = "done"
  /\ Attempts = 3
  /\ IsTransient(outcomes[1])
  /\ Is429(outcomes[2])
  /\ HasStatus(outcomes[3], {500})
  /\ settings.max_retries = 3

\* the backoff table of the specification: factor^k for k = 0..5
BackoffTable(factor) ==
  IF factor = 2 THEN <<1, 2, 4, 8, 16, 32>> ELSE <<1, 3, 9, 27, 81, 243>>

RECURSIVE SumSeconds(_)
SumSeconds(sl) == IF sl = <<>> THEN 0 ELSE Head(sl).seconds + SumSeconds(Tail(sl))

\* C10: the sleep before the retry that follows a timeout or connection
\* failure on attempt k (k = 0 for the first attempt) is
\* retry_backoff_factor^k seconds; with factor 2, max_retries 3 and a
\* permanently failing transport the sleeps are 1, 2, 4 and sum to 7.
C10_ExponentialBackoff ==
  /\ \A i \in 1..Len(sleeps) :
       /\ sleeps[i].attempt = i - 1
       /\ IsTransient(outcomes[i]) =>
            sleeps[i].seconds = BackoffTable(settings.retry_backoff_factor)[i]
  /\ (pc = "sleep" /\ IsTransient(LastOutcome)) =>
       pending.seconds = BackoffTable(settings.retry_backoff_factor)[Attempts]
  /\ (pc = "done" /\ AllTransient /\ settings.retry_backoff_factor = 2
        /\ settings.max_retries = 3) =>
       /\ [i \in 1..Len(sleeps) |-> sleeps[i].seconds] = <<1, 2, 4>>
       /\ SumSeconds(sleeps) = 7

C10_Witness ==
  /\ pc = "done"
  /\ AllTransient
  /\ settings.retry_backoff_factor = 2
  /\ settings.max_retries = 3
  /\ SumSeconds(sleeps) = 7
  /\ outcomes[2].kind = "httpx.NetworkError"

\* the first k attempts met a timeout or connection failure and attempt
\* k + 1 got a response
TransientThenResponse ==
  /\ outcomes # <<>>
  /\ LastOutcome.kind = "response"
  /\ \A i \in 1..(Len(outcomes) - 1) : IsTransient(outcomes[i])

\* the decoded body of a successful response as the specification defines
\* it: the empty structured value for an absent or whitespace-only body
DecodedBody(text) == IF DropWs(text) = <<>> THEN {} ELSE JsonLoads(text)[1]

\* C11 (as claimed): when the first k <= max_retries attempts fail with a
\* timeout or connection failure and attempt k + 1 gets a successful
\* response, the request returns the decoded body of that response after
\* exactly k + 1 attempts and raises nothing.
C11_SuccessAfterTransientRetries ==
  (pc = "done" /\ TransientThenResponse
     /\ HasStatus(LastOutcome, {200, 204})
     /\ LastOutcome.response.text \in {ObjectBody, EmptyBody, WhitespaceBody}) =>
    /\ flight = Return(DecodedBody(LastOutcome.response.text))
    /\ Attempts <= settings.max_retries + 1

\* C12: a logical request terminates, returning a body or raising a typed
\* error, after at most max_retries + 1 physical attempts, for any mix of
\* 429, timeout and connection-failure outcomes (one attempt counter for
\* both kinds of retry), when every transport call and sleep completes.
C12_RequestTerminates ==
  /\ [](Attempts <= settings.max_retries + 1)
  /\ [](\A i \in 1..Len(frames) : frames[i].retry_count = i - 1)
  /\ (pc # "idle") ~>
       (/\ pc = "done"
        /\ flight.kind \in {"return", "raise"}
        /\ flight.kind = "raise" => flight.exc.type \in TypedErrors)

C12_Witness ==
  /\ pc = "done"
  /\ settings.max_retries = 3
  /\ Attempts = 4
  /\ Is429(outcomes[1])
  /\ outcomes[2].kind = "httpx.TimeoutException"
  /\ Is429(outcomes[3])
  /\ outcomes[4].kind = "httpx.NetworkError"

\* C13: in every reachable state of a RateLimiter, under any number of
\* sequential or concurrent acquire() calls and any passage of time,
\* 0 <= tokens <= requests_per_period.
C13_TokensWithinBucket ==
  \A c \in Clients :
    /\ 0 <= limiters[c].tokens
    /\ limiters[c].tokens <= settings.rate_limit_requests * settings.rate_limit_period

C13_Witness ==
  /\ now >= 2
  /\ Len(admitted["c1"]) >= 3
  /\ \E i \in 1..Len(admitted["c1"]) : admitted["c1"][i].slept > 0
  /\ \E i \in 1..Len(admitted["c1"]) :
       admitted["c1"][i].at > 0 /\ admitted["c1"][i].slept = 0
  /\ \E t \in Tasks : tasks[t].pc = "waiting"

\* C14 (as claimed): within one limiter the number of acquire() calls that
\* return during any interval of length T is at most
\* requests_per_period + T * requests_per_period / period_seconds
\* (T in ticks of 1/requests_per_period second: count <= rpp + T / period).
C14_AdmittedRateWithinBucket ==
  \A c \in Clients :
    \A i \in 1..Len(admitted[c]) : \A j \in i..Len(admitted[c]) :
      ((j - i + 1) - settings.rate_limit_requests) * settings.rate_limit_period
        <= admitted[c][j].returned - admitted[c][i].returned

\* C15: on a fresh limiter of capacity C with no time elapsing between the
\* calls, the first C acquire() calls return without sleeping and call
\* C + 1 sleeps period_seconds / C before it returns, leaving tokens = 0.
C15_BurstThenOneSleep ==
  \A c \in Clients : \A n \in 1..Len(admitted[c]) :
    (\A i \in 1..n : admitted[c][i].at = 0) =>
      /\ n <= settings.rate_limit_requests =>
           (admitted[c][n].slept = 0 /\ admitted[c][n].returned = 0)
      /\ n = settings.rate_limit_requests + 1 =>
           /\ admitted[c][n].slept = settings.rate_limit_period
           /\ admitted[c][n].tokens_after = 0
           /\ admitted[c][n].returned >= settings.rate_limit_period

C15_Witness ==
  /\ settings.rate_limit_requests = 2
  /\ Len(admitted["c1"]) = 3
  /\ \A i \in 1..3 : admitted["c1"][i].at = 0
  /\ admitted["c1"][3].slept = 3
  /\ limiters["c1"].tokens = 0

\* C16: acquire() never rejects: every acquire() call of any of several
\* concurrent callers returns in the end, when sleeps complete and the lock
\* is granted fairly.
C16_AcquireReturns ==
  \A t \in Tasks : (tasks[t].pc # "idle") ~> (tasks[t].pc = "idle")

C16_Witness ==
  /\ Len(admitted["c1"]) = 3
  /\ \E i \in 1..3 : admitted["c1"][i].slept > 0 /\ admitted["c1"][i].task = "t1"
  /\ \E i \in 1..3 : admitted["c1"][i].slept > 0 /\ admitted["c1"][i].task = "t2"
  /\ \A t \in Tasks : tasks[t].pc = "idle"

\* C17: each client owns its RateLimiter: acquire() on one client never
\* changes tokens or last_update of the limiter of another client, so k
\* live clients built from the same settings admit k * requests_per_period
\* requests together without any of them sleeping.
C17_LimiterPerClient ==
  /\ [][\A c \in Clients :
          limiters'[c] # limiters[c] =>
            \E t \in Tasks : ClientOf(t) = c /\ tasks'[t] # tasks[t]]_vars
  /\ [](\A t \in Tasks :
          (tasks[t].pc = "sleeping" /\ tasks[t].since = 0) =>
            Len(admitted[ClientOf(t)]) >= settings.rate_limit_requests)

C17_Witness ==
  /\ now = 0
  /\ settings.rate_limit_requests = 2
  /\ \A c \in Clients :
       /\ Len(admitted[c]) = 2
       /\ \A i \in 1..2 : admitted[c][i].slept = 0
       /\ limiters[c].tokens = 0

\* authenticate() has just ended
AuthenticateEnded == pc = "returned" /\ op = "authenticate"

\* C18 (as claimed): whenever authenticate() returns without raising,
\* is_authenticated is True afterwards, whatever the content of the
\* successful response body.
C18_ReturnMeansAuthenticated ==
  (AuthenticateEnded /\ auth_result.kind = "return") => authenticated = TRUE

\* C19: authenticate() issues one logical GET to /ea/sites, and when that
\* request fails with any error authenticate() raises AuthenticationError
\* and nothing else.
C19_FailureIsAuthenticationError ==
  /\ op = "authenticate" =>
       /\ request = [method |-> "GET", endpoint |-> "/ea/sites"]
       /\ \A i \in 1..Len(frames) : frames[i].retry_count = i - 1
  /\ (AuthenticateEnded /\ flight.kind = "raise") =>
       /\ auth_result = Raise(AuthenticationError)
       /\ Attempts <= settings.max_retries + 1

C19_Witness ==
  /\ AuthenticateEnded
  /\ Attempts = 2
  /\ Is429(outcomes[1])
  /\ IsTransient(outcomes[2])
  /\ flight.exc.type = "APIError"
  /\ auth_result.exc.type = "AuthenticationError"

\* C20: is_authenticated is False on a new client and is True only if an
\* earlier authenticate() of that client returned without raising; get,
\* post, put, delete, a failed authenticate() and close() never set it.
C20_AuthenticatedOnlyByProbe ==
  /\ []((ops = 0 /\ pc # "returned") => ~authenticated)
  /\ [](authenticated => auth_returned)
  /\ [][(authenticated' /\ ~authenticated) =>
          (op = "authenticate" /\ pc = "done" /\ flight.kind = "return"
             /\ auth_result'.kind = "return")]_vars

C20_Witness ==
  /\ authenticated
  /\ ops = 1
  /\ pc = "returned"
  /\ op = "authenticate"
  /\ auth_result.kind = "raise"
  /\ flight.exc.type = "AuthenticationError"

\* C21 (as claimed): with request logging enabled every physical attempt,
\* whatever its outcome, has written exactly one API-request log record:
\* there are as many records as attempts.
C21_OneLogRecordPerAttempt ==
  settings.log_api_requests => Len(log_records) = Len(outcomes)

\* the attempt of this step got a response and wrote no log record for it
LogWriteFailed ==
  /\ pc = "transport"
  /\ settings.log_api_requests
  /\ Len(outcomes') = Len(outcomes) + 1
  /\ outcomes'[Len(outcomes')].kind = "response"
  /\ log_records' = log_records

\* what the attempt of this step does when the log record is written
OutcomeOfResponse ==
  ExceptClauses(TryBody(outcomes'[Len(outcomes')].response, request.endpoint,
                        Top.retry_count),
                Top.retry_count)

\* C22 (as claimed): an attempt whose log write fails still ends as the
\* transport response determines: the body is returned, and 404, 401/403
\* and 429 are classified as with a working log.
C22_LogFailureKeepsOutcome ==
  [][LogWriteFailed =>
       IF OutcomeOfResponse.kind = "retry"
       THEN pc' = "sleep" /\ pending' = OutcomeOfResponse
       ELSE pc' = "unwind" /\ flight' = OutcomeOfResponse]_vars

\* C23: leaving an "async with UniFiClient(settings)" block closes the
\* HTTP transport exactly once, whether the block ends normally or by an
\* exception raised inside it; inside the block the transport is open.
C23_ContextClosesOnce ==
  /\ context \in {"none", "inside"} => closed = 0
  /\ context \in {"left", "raised"} => closed = 1

C23_Witness ==
  /\ context = "raised"
  /\ closed = 1
  /\ pc = "returned"
  /\ op = "none"
  /\ Attempts = 2
  /\ flight.kind = "raise"
  /\ flight.exc.type = "NetworkError"

\* a tool call has ended
ToolEnded == call.name # "none" /\ call.pc = 0 /\ tool_result # NoFlight

MutatingCalls == {i \in 1..Len(api_calls) : api_calls[i].api \in MutatingApis}

\* a mutating call is made only with confirm = True and dry_run = False
MutationOnlyConfirmed ==
  MutatingCalls # {} => (call.confirm /\ ~call.dry_run)

\* with confirm = False the tool raises ValidationError before any API call
UnconfirmedRaises ==
  (call.name \in MutatingTools /\ ~call.confirm) =>
    /\ api_calls = <<>>
    /\ ToolEnded => tool_result = Raise(ValidationError)

\* with dry_run = True the result the tool returns is marked dry_run
DryRunMarked ==
  (call.name \in MutatingTools /\ call.dry_run /\ ToolEnded
     /\ tool_result.kind = "return") =>
    tool_result.value[1].dry_run

\* C24 (as claimed): a mutating tool issues a mutating API call only when
\* confirm is True and dry_run is False: with confirm False it raises
\* ValidationError before any API call, and with dry_run True it returns a
\* result marked dry_run without any mutating call.
C24_MutationNeedsConfirm ==
  /\ MutationOnlyConfirmed
  /\ UnconfirmedRaises
  /\ DryRunMarked

RestoreCalls ==
  {i \in 1..Len(api_calls) : api_calls[i].api = "restore_backup"}

PreRestoreCalls ==
  {i \in 1..Len(api_calls) :
     api_calls[i].step \in {"pre_authenticate", "pre_trigger"}}

\* C25: restore_backup with create_pre_restore_backup=True triggers the
\* pre-restore backup and has its result before it issues the restore
\* call; when the pre-restore backup fails the restore call is never
\* issued; can_rollback of the result is True exactly when a pre-restore
\* backup id was recorded, which is when create_pre_restore_backup is True.
C25_PreRestoreBeforeRestore ==
  call.name = "restore_backup" =>
    /\ \A i \in RestoreCalls :
         call.create_pre_restore_backup =>
           /\ \E j \in 1..(i - 1) :
                api_calls[j].step = "pre_trigger" /\ api_calls[j].ok
           /\ call.pre_restore_backup_id # None
    /\ (\E j \in PreRestoreCalls : ~api_calls[j].ok) => RestoreCalls = {}
    /\ ~call.create_pre_restore_backup => PreRestoreCalls = {}
    /\ (ToolEnded /\ tool_result.kind = "return" /\ ~call.dry_run) =>
         /\ tool_result.value[1].can_rollback
              = (tool_result.value[1].pre_restore_backup_id # None)
         /\ tool_result.value[1].pre_restore_backup_id = call.pre_restore_backup_id
         /\ tool_result.value[1].can_rollback = call.create_pre_restore_backup

C25_Witness ==
  /\ call.name = "restore_backup"
  /\ ToolEnded
  /\ tool_result.kind = "return"
  /\ tool_result.value[1].can_rollback
  /\ tool_result.value[1].pre_restore_backup_id = Some("backup_now")
  /\ Len(api_calls) = 4
  /\ Len(audit_log) = 2

\* the audit entries of the failure of the running tool
FailureEntries ==
  {i \in 1..Len(audit_log) :
     /\ audit_log[i].operation = call.name
     /\ audit_log[i].result \in {"error", "failed"}}

\* C29 (as claimed): when the API call inside trigger_backup,
\* download_backup, delete_backup or restore_backup fails, the tool writes
\* one audit entry for the failed operation and re-raises the original
\* exception unchanged.
C29_FailureAuditedAndReraised ==
  (/\ call.name \in BackupTools
   /\ ToolEnded
   /\ api_calls # <<>>
   /\ api_calls[Len(api_calls)].step \in {"mutate", "read"}
   /\ ~api_calls[Len(api_calls)].ok) =>
    /\ tool_result = Raise(api_calls[Len(api_calls)].exc)
    /\ Cardinality(FailureEntries) = 1

\* C26: every physical attempt, each retry included, first completes
\* exactly one rate_limiter.acquire() before its transport call: the
\* completed acquires equal the physical attempts, plus the one of the
\* attempt whose transport call is about to be made.
C26_AcquireBeforeEachAttempt ==
  /\ acquired = Len(outcomes) + (IF pc = "transport" THEN 1 ELSE 0)
  /\ pc = "transport" => Len(frames) = acquired

C26_Witness ==
  /\ pc = "done"
  /\ Attempts = 4
  /\ acquired = 4
  /\ limiter_slept > 0
  /\ Is429(outcomes[1])
  /\ IsTransient(outcomes[2])

\* the tasks that sleep inside acquire() of the limiter of client c
Sleepers(c) == {t \in Tasks : LimiterOf(t) = c /\ tasks[t].pc = "sleeping"}

\* C27: at most one task at a time is inside the critical section of
\* acquire(): a caller that sleeps for a token keeps the lock, and tokens
\* and last_update are read and updated by the holder of the lock only,
\* while the other callers of that limiter stand still.
C27_OneTaskInCriticalSection ==
  /\ [](\A c \in Clients : Cardinality(Sleepers(c)) <= 1)
  /\ [](\A t \in Tasks :
          tasks[t].pc = "sleeping" => HoldsLock(locks[LimiterOf(t)], t))
  /\ [][\A c \in Clients :
          limiters'[c] # limiters[c] =>
            /\ locks[c] # <<>>
            /\ tasks'[Head(locks[c])] # tasks[Head(locks[c])]
            /\ \A t \in Tasks :
                 (LimiterOf(t) = c /\ t # Head(locks[c])) => tasks'[t] = tasks[t]]_vars

C27_Witness ==
  /\ tasks["t1"].pc = "sleeping"
  /\ tasks["t2"].pc = "waiting"
  /\ locks["c1"] = <<"t1", "t2">>
  /\ now > tasks["t1"].since
  /\ Len(admitted["c1"]) = 1

\* C28: the physical attempts of one logical request never overlap: every
\* attempt but the last has resolved, and the next attempt was entered (its
\* acquire and its transport call come after that) only when the attempt
\* before it had resolved and its retry sleep was over; within an attempt the
\* transport call is made after the entry and answered after it is made.
\* Attempts of distinct requests on the same client may interleave.
C28_AttemptsOfARequestSequential ==
  \A t \in Requesters :
    LET log == reqs[t].log
    IN  \A k \in 1..Len(log) :
          /\ k < Len(log) =>
               /\ log[k].resolved_at >= 0
               /\ log[k + 1].entered_at >=
                    log[k].resolved_at + log[k].sleep * TicksPerSecond
          /\ log[k].sent_at >= 0 => log[k].sent_at >= log[k].entered_at
          /\ log[k].resolved_at >= 0 =>
               /\ log[k].sent_at >= 0
               /\ log[k].resolved_at >= log[k].sent_at

\* two requests of one client have their transport calls outstanding at the
\* same time, one of them on a retry that followed a sleep
C28_Witness ==
  \E t, u \in Requesters :
    /\ t # u
    /\ reqs[t].pc = "transport"
    /\ reqs[u].pc = "transport"
    /\ Len(reqs[t].log) = 2
    /\ reqs[t].log[1].sleep > 0
    /\ reqs[t].log[2].entered_at > reqs[u].log[1].entered_at
    /\ reqs[t].log[1].resolved_at >= reqs[u].log[1].entered_at

\* C30: every assign_network_to_zone call that has returned successfully
\* without dry_run has its network in the zone's network list, whatever other
\* calls on the same zone ran concurrently.
C30_NoAssignmentLost ==
  \A t \in Tasks :
    (assigns[t].result = "assigned") => InList(assigns[t].network_id, zone)

====
